---- MODULE Spec2Model ----
(***************************************************************************)
(* A model of the grid simulation of rust-driller (src/src/model.rs) and   *)
(* of the frame loop that drives it (src/src/main.rs).                     *)
(*                                                                         *)
(* A Point is a pair <<x, y>>, an Option<Point> is <<>> (None) or <<p>>    *)
(* (Some(p)).  The grid `cells` is a function from the points of the grid  *)
(* to Cell records.  The size of the grid is held in x_len and y_len: the  *)
(* program fixes it at compile time (CELLS_X_LEN, CELLS_Y_LEN); here it is *)
(* fixed by the initial state of each specification and never changes.     *)
(***************************************************************************)
EXTENDS Integers, Sequences, FiniteSets, TLC

VARIABLES
    x_len,            \* CELLS_X_LEN of the grid at hand
    y_len,            \* CELLS_Y_LEN of the grid at hand
    cells,            \* Game.cells
    player,           \* Game.player
    is_over,          \* Game.is_over
    is_clear,         \* Game.is_clear
    frame,            \* Game.frame
    depth,            \* Game.depth
    camera_y,         \* Game.camera_y
    requested_sounds, \* Game.requested_sounds
    command,          \* the argument of the update call in progress
    pc,               \* the position of the frame loop / of update
    panicked,         \* the process has aborted (unwrap of None, failed assert)
    steps,            \* number of update calls (or passes) explored so far
    script            \* the commands still to come, when the input is scripted

vars == <<x_len, y_len, cells, player, is_over, is_clear, frame, depth,
          camera_y, requested_sounds, command, pc, panicked, steps, script>>

(***************************************************************************)
(* Program constants (src/src/model.rs:14-22).                             *)
(***************************************************************************)
CELLS_X_LEN == 9
AIR_MAX == 3000
AIR_SPAWN_INTERVAL == 20
BLOCK_LIFE_MAX == 100
WALK_FRAMES == 3
FALL_FRAMES == 3
SHAKE_FRAMES == 43

CELLS_X_MIN == 0
CELLS_X_MAX == x_len - 1
CELLS_Y_MIN == 0
CELLS_Y_MAX == y_len - 1

Command == {"None", "Left", "Right", "Down", "Up"}
Direction == {"Left", "Right", "Up", "Down"}
\* Direction::all()
DirectionAll == <<"Left", "Right", "Up", "Down">>
CellType == {"None", "Air", "Block"}
BlockColor == {"Red", "Yellow", "Green", "Blue", "Clear", "Brown"}
PlayerState == {"Standing", "Walking", "Falling"}

\* The points of a grid of the given size.
PointsOf(xl, yl) == (0 .. xl - 1) \X (0 .. yl - 1)
Points == PointsOf(x_len, y_len)

\* Cell::new()
CellNew ==
    [cell_type |-> "None", color |-> "Red", leader |-> <<>>,
     block_life |-> BLOCK_LIFE_MAX, grounded |-> FALSE,
     shaking_frames |-> -1, falling_frames |-> -1, fell |-> FALSE]

\* Player::new(); the start row is the last row of the space above the blocks.
PlayerNew(xl, up) ==
    [p |-> <<xl \div 2, up - 1>>, air |-> AIR_MAX, state |-> "Standing",
     direction |-> "Left", walking_frames |-> 0, falling_frames |-> 0]

\* clamp(min, value, max)
clamp(min, value, max) ==
    IF value < min THEN min ELSE IF value > max THEN max ELSE value

\* neighbor that wraps around the edges of the grid.
neighbor_wrapping(p, direction) ==
    CASE direction = "Left" -> << <<(p[1] - 1) % x_len, p[2]>> >>
      [] direction = "Right" -> << <<(p[1] + 1) % x_len, p[2]>> >>
      [] direction = "Up" -> << <<p[1], (p[2] - 1) % y_len>> >>
      [] direction = "Down" -> << <<p[1], (p[2] + 1) % y_len>> >>

\* Game::neighbor: None at the edge of the grid.
neighbor(p, direction) ==
    CASE direction = "Left" ->
            IF p[1] - 1 >= CELLS_X_MIN THEN << <<p[1] - 1, p[2]>> >> ELSE <<>>
      [] direction = "Right" ->
            IF p[1] + 1 <= CELLS_X_MAX THEN << <<p[1] + 1, p[2]>> >> ELSE <<>>
      [] direction = "Up" ->
            IF p[2] - 1 >= CELLS_Y_MIN THEN << <<p[1], p[2] - 1>> >> ELSE <<>>
      [] direction = "Down" ->
            IF p[2] + 1 <= CELLS_Y_MAX THEN << <<p[1], p[2] + 1>> >> ELSE <<>>

\* for y in CELLS_Y_MIN..=CELLS_Y_MAX { for x in CELLS_X_MIN..=CELLS_X_MAX }:
\* the i-th point visited, i in 1 .. ScanLen.
ScanLen == x_len * y_len
ScanDown(i) == <<(i - 1) % x_len, (i - 1) \div x_len>>

\* for y in (CELLS_Y_MIN..=CELLS_Y_MAX).rev() { for x in CELLS_X_MIN..=CELLS_X_MAX }
ScanUp(i) == <<(i - 1) % x_len, CELLS_Y_MAX - ((i - 1) \div x_len)>>

(***************************************************************************)
(* Connectivity Labeler: Game::set_leaders / Game::set_leader.             *)
(***************************************************************************)
RECURSIVE set_leader(_, _, _)
RECURSIVE set_leader_directions(_, _, _, _)

\* The loop over Direction::all() of set_leader, from the i-th direction on.
set_leader_directions(c, p, leader, i) ==
    IF i > Len(DirectionAll) THEN c
    ELSE LET n == neighbor(p, DirectionAll[i])
         IN  IF n # <<>> /\ c[n[1]].color = c[p].color /\ c[n[1]].leader = <<>>
             THEN set_leader_directions(set_leader(c, n[1], leader), p, leader, i + 1)
             ELSE set_leader_directions(c, p, leader, i + 1)

\* set_leader without its test of the cell type.
set_leader_any_type(c, p, leader) ==
    set_leader_directions([c EXCEPT ![p].leader = <<leader>>], p, leader, 1)

set_leader(c, p, leader) ==
    IF c[p].cell_type # "Block" THEN c
    ELSE set_leader_directions([c EXCEPT ![p].leader = <<leader>>], p, leader, 1)

RECURSIVE set_leaders_scan_bottom_up(_, _)
\* set_leaders_scan that visits the rows from the bottom upward.
set_leaders_scan_bottom_up(c, i) ==
    IF i > ScanLen THEN c
    ELSE LET p == ScanUp(i)
         IN  set_leaders_scan_bottom_up(
                 IF c[p].leader = <<>> THEN set_leader(c, p, p) ELSE c, i + 1)

RECURSIVE set_leaders_scan(_, _)
\* The second loop of set_leaders, from the i-th point of the scan on.
set_leaders_scan(c, i) ==
    IF i > ScanLen THEN c
    ELSE LET p == ScanDown(i)
         IN  set_leaders_scan(IF c[p].leader = <<>> THEN set_leader(c, p, p) ELSE c,
                              i + 1)

set_leaders(c) ==
    set_leaders_scan([p \in DOMAIN c |-> [c[p] EXCEPT !.leader = <<>>]], 1)

\* Game::get_component: the points whose leader equals that of p.
get_component(c, p) == {q \in DOMAIN c : c[q].leader = c[p].leader}

(***************************************************************************)
(* Gravity Engine: Game::fall_ungrounded_blocks.  A pass yields the new    *)
(* grid and whether the pass panicked (unwrap of a missing neighbour).     *)
(***************************************************************************)
\* The cell at p has finished shaking and falling: the pass relocates it.
Relocates(c, p) ==
    /\ c[p].cell_type # "None"
    /\ ~c[p].grounded
    /\ c[p].shaking_frames > SHAKE_FRAMES
    /\ c[p].falling_frames > FALL_FRAMES

\* relocate without the clearing of the source cell.
relocate_keep_source(c, p) ==
    LET down == neighbor(p, "Down")
    IN  IF down = <<>> THEN [cells |-> c, panicked |-> TRUE]
        ELSE [cells |-> [c EXCEPT ![down[1]] = [c[p] EXCEPT !.fell = TRUE]],
              panicked |-> FALSE]

\* The relocation of the cell at p into the cell below it.
relocate(c, p) ==
    LET down == neighbor(p, "Down")
    IN  IF down = <<>> THEN [cells |-> c, panicked |-> TRUE]
        ELSE LET d  == down[1]
                 c1 == [c EXCEPT ![d] = c[p]]
                 c2 == [c1 EXCEPT ![p].cell_type = "None"]
                 c3 == [c2 EXCEPT ![d].fell = TRUE]
                 down2 == neighbor(d, "Down")
             IN  [cells |-> IF down2 # <<>> /\ c3[down2[1]].cell_type = "Air"
                            THEN [c3 EXCEPT ![down2[1]].cell_type = "None"]
                            ELSE c3,
                  panicked |-> FALSE]

\* fall_cell with < in place of <= in the two phase tests.
fall_cell_strict(c, p) ==
    LET c0 == [c EXCEPT ![p].fell = FALSE]
        keep(g) == [cells |-> g, panicked |-> FALSE]
    IN  IF c0[p].cell_type = "None" \/ c0[p].grounded THEN keep(c0)
        ELSE IF c0[p].shaking_frames < 0
             THEN keep([c0 EXCEPT ![p].shaking_frames = 0])
        ELSE IF c0[p].shaking_frames < SHAKE_FRAMES
             THEN keep([c0 EXCEPT ![p].shaking_frames = @ + 1])
        ELSE IF c0[p].falling_frames < 0
             THEN keep([c0 EXCEPT ![p].falling_frames = 0])
        ELSE IF c0[p].falling_frames < FALL_FRAMES
             THEN keep([c0 EXCEPT ![p].falling_frames = @ + 1])
        ELSE relocate(c0, p)

\* fall_cell that does not look at the supported flag (no `!grounded`).
fall_cell_ignores_support(c, p) ==
    LET c0 == [c EXCEPT ![p].fell = FALSE]
        keep(g) == [cells |-> g, panicked |-> FALSE]
    IN  IF c0[p].cell_type = "None" THEN keep(c0)
        ELSE IF c0[p].shaking_frames < 0
             THEN keep([c0 EXCEPT ![p].shaking_frames = 0])
        ELSE IF c0[p].shaking_frames <= SHAKE_FRAMES
             THEN keep([c0 EXCEPT ![p].shaking_frames = @ + 1])
        ELSE IF c0[p].falling_frames < 0
             THEN keep([c0 EXCEPT ![p].falling_frames = 0])
        ELSE IF c0[p].falling_frames <= FALL_FRAMES
             THEN keep([c0 EXCEPT ![p].falling_frames = @ + 1])
        ELSE relocate(c0, p)

\* The body of the loop of fall_ungrounded_blocks for the point p.
fall_cell(c, p) ==
    LET c0 == [c EXCEPT ![p].fell = FALSE]
        keep(g) == [cells |-> g, panicked |-> FALSE]
    IN  IF c0[p].cell_type = "None" \/ c0[p].grounded THEN keep(c0)
        ELSE IF c0[p].shaking_frames < 0
             THEN keep([c0 EXCEPT ![p].shaking_frames = 0])
        ELSE IF c0[p].shaking_frames <= SHAKE_FRAMES
             THEN keep([c0 EXCEPT ![p].shaking_frames = @ + 1])
        ELSE IF c0[p].falling_frames < 0
             THEN keep([c0 EXCEPT ![p].falling_frames = 0])
        ELSE IF c0[p].falling_frames <= FALL_FRAMES
             THEN keep([c0 EXCEPT ![p].falling_frames = @ + 1])
        ELSE relocate(c0, p)

RECURSIVE fall_scan(_, _, _)
\* The loop of fall_ungrounded_blocks from the i-th up to the n-th point of
\* the bottom-up scan; a panic ends the pass.
fall_scan(g, i, n) ==
    IF i > n \/ g.panicked THEN g
    ELSE fall_scan(fall_cell(g.cells, ScanUp(i)), i + 1, n)

fall_ungrounded_blocks(c) ==
    fall_scan([cells |-> c, panicked |-> FALSE], 1, ScanLen)

(***************************************************************************)
(* Cascade Eraser: Game::erase_connected_blocks.                           *)
(***************************************************************************)
\* erase_cell with a threshold of 3 cells.
erase_cell_threshold_3(c, p) ==
    IF c[p].cell_type = "Block" /\ c[p].fell /\ Cardinality(get_component(c, p)) >= 3
    THEN [q \in DOMAIN c |->
            IF q \in get_component(c, p) THEN [c[q] EXCEPT !.cell_type = "None"]
            ELSE c[q]]
    ELSE c

\* The body of the loop of erase_connected_blocks for the point p.
erase_cell(c, p) ==
    IF c[p].cell_type = "Block" /\ c[p].fell
    THEN LET component == get_component(c, p)
         IN  IF Cardinality(component) >= 4
             THEN [q \in DOMAIN c |->
                     IF q \in component THEN [c[q] EXCEPT !.cell_type = "None"]
                     ELSE c[q]]
             ELSE c
    ELSE c

RECURSIVE erase_scan(_, _)
erase_scan(c, i) ==
    IF i > ScanLen THEN c
    ELSE erase_scan(erase_cell(c, ScanDown(i)), i + 1)

erase_connected_blocks(c) == erase_scan(c, 1)

(***************************************************************************)
(* Support Propagator: Game::update_grounded.                              *)
(***************************************************************************)
\* ground_cell that does not take the floor for support (no `down == None`).
ground_cell_no_floor(c, p) ==
    IF c[p].grounded THEN c
    ELSE LET down == neighbor(p, "Down")
             grounded == /\ down # <<>>
                         /\ c[down[1]].cell_type # "None"
                         /\ c[down[1]].grounded
         IN  IF ~grounded THEN c
             ELSE CASE c[p].cell_type = "None" -> c
                    [] c[p].cell_type = "Air" -> [c EXCEPT ![p].grounded = TRUE]
                    [] c[p].cell_type = "Block" ->
                         LET component == get_component(c, p)
                         IN  [q \in DOMAIN c |->
                                IF q \in component
                                THEN [c[q] EXCEPT !.grounded = TRUE,
                                                  !.shaking_frames = -1,
                                                  !.falling_frames = -1]
                                ELSE c[q]]

\* ground_cell that marks the Block at p alone, not its component.
ground_cell_alone(c, p) ==
    IF c[p].grounded THEN c
    ELSE LET down == neighbor(p, "Down")
             grounded == \/ down = <<>>
                         \/ /\ c[down[1]].cell_type # "None"
                            /\ c[down[1]].grounded
         IN  IF ~grounded THEN c
             ELSE CASE c[p].cell_type = "None" -> c
                    [] c[p].cell_type = "Air" -> [c EXCEPT ![p].grounded = TRUE]
                    [] c[p].cell_type = "Block" ->
                         [c EXCEPT ![p].grounded = TRUE,
                                   ![p].shaking_frames = -1,
                                   ![p].falling_frames = -1]

\* The body of the second loop of update_grounded for the point p.
ground_cell(c, p) ==
    IF c[p].grounded THEN c
    ELSE LET down == neighbor(p, "Down")
             grounded == \/ down = <<>>
                         \/ /\ c[down[1]].cell_type # "None"
                            /\ c[down[1]].grounded
         IN  IF ~grounded THEN c
             ELSE CASE c[p].cell_type = "None" -> c
                    [] c[p].cell_type = "Air" -> [c EXCEPT ![p].grounded = TRUE]
                    [] c[p].cell_type = "Block" ->
                         LET component == get_component(c, p)
                         IN  [q \in DOMAIN c |->
                                IF q \in component
                                THEN [c[q] EXCEPT !.grounded = TRUE,
                                                  !.shaking_frames = -1,
                                                  !.falling_frames = -1]
                                ELSE c[q]]

RECURSIVE ground_scan(_, _)
ground_scan(c, i) ==
    IF i > ScanLen THEN c
    ELSE ground_scan(ground_cell(c, ScanUp(i)), i + 1)

update_grounded(c) ==
    ground_scan([p \in DOMAIN c |-> [c[p] EXCEPT !.grounded = FALSE]], 1)

(***************************************************************************)
(* Game::dig.  The operation reads and writes the grid, the player's air,  *)
(* is_clear and the sound queue: g is a record of these four.              *)
(***************************************************************************)
\* (AIR_MAX as f32 * 0.23) as i32: the f32 product of 3000 and 0.23 is
\* 690.0, truncated to 690.
AirPenalty == (AIR_MAX * 23) \div 100
\* (AIR_MAX as f32 * 0.2) as i32: the f32 product is 600.0, truncated to 600.
AirPickup == (AIR_MAX * 20) \div 100

\* erase_leader that clears the struck cell only.
erase_struck_only(c, p) == [c EXCEPT ![p].cell_type = "None"]

\* The last loop of dig: every cell whose leader is that of p becomes None.
erase_leader(c, p) ==
    [q \in DOMAIN c |->
        IF c[q].leader = c[p].leader THEN [c[q] EXCEPT !.cell_type = "None"]
        ELSE c[q]]

\* dig that takes 50 from the life of a Brown block.
dig_brown_two_hits(g, p) ==
    LET g1 == IF g.cells[p].color = "Clear"
              THEN [g EXCEPT !.is_clear = TRUE,
                             !.requested_sounds = Append(@, "clear.wav")]
              ELSE g
        g2 == IF g1.cells[p].color = "Brown"
              THEN [g1 EXCEPT !.cells[p].block_life = @ - 50]
              ELSE [g1 EXCEPT !.cells[p].block_life = 0]
    IN  IF g2.cells[p].block_life > 0 THEN g2
        ELSE LET g3 == IF g2.cells[p].color = "Brown"
                       THEN [g2 EXCEPT
                               !.air = clamp(0, g2.air - AirPenalty, AIR_MAX),
                               !.requested_sounds = Append(@, "break_brown.wav")]
                       ELSE g2
             IN  [g3 EXCEPT !.cells = erase_leader(g3.cells, p)]

dig(g, p) ==
    LET g1 == IF g.cells[p].color = "Clear"
              THEN [g EXCEPT !.is_clear = TRUE,
                             !.requested_sounds = Append(@, "clear.wav")]
              ELSE g
        g2 == IF g1.cells[p].color = "Brown"
              THEN [g1 EXCEPT !.cells[p].block_life = @ - 25]
              ELSE [g1 EXCEPT !.cells[p].block_life = 0]
    IN  IF g2.cells[p].block_life > 0 THEN g2
        ELSE LET g3 == IF g2.cells[p].color = "Brown"
                       THEN [g2 EXCEPT
                               !.air = clamp(0, g2.air - AirPenalty, AIR_MAX),
                               !.requested_sounds = Append(@, "break_brown.wav")]
                       ELSE g2
             IN  [g3 EXCEPT !.cells = erase_leader(g3.cells, p)]

(***************************************************************************)
(* Player Controller: Game::player_move and Game::dig_or_walk.             *)
(***************************************************************************)
\* footing_check that lets only a Standing player start to fall.
footing_check_standing_only(pl, c) ==
    LET down == neighbor(pl.p, "Down")
    IN  IF /\ down # <<>>
           /\ c[down[1]].cell_type \in {"None", "Air"}
           /\ pl.state = "Standing"
        THEN [pl EXCEPT !.state = "Falling", !.falling_frames = 0]
        ELSE pl

\* player_move, lines 355-363: a player with no footing starts to fall,
\* whatever it was doing, unless it is falling already.
footing_check(pl, c) ==
    LET down == neighbor(pl.p, "Down")
    IN  IF /\ down # <<>>
           /\ c[down[1]].cell_type \in {"None", "Air"}
           /\ pl.state # "Falling"
        THEN [pl EXCEPT !.state = "Falling", !.falling_frames = 0]
        ELSE pl

\* fall_step that completes the fall one tick late (> for >=).
fall_step_late(pl) ==
    IF pl.state = "Falling"
    THEN IF pl.falling_frames + 1 > FALL_FRAMES
         THEN [player |-> [pl EXCEPT !.falling_frames = 0,
                                     !.p = <<pl.p[1], pl.p[2] + 1>>,
                                     !.state = "Standing"],
               landed |-> TRUE]
         ELSE [player |-> [pl EXCEPT !.falling_frames = @ + 1],
               landed |-> FALSE]
    ELSE [player |-> pl, landed |-> FALSE]

\* player_move, lines 366-375: a tick of falling; yields the player and
\* whether the fall of one row was completed.
fall_step(pl) ==
    IF pl.state = "Falling"
    THEN IF pl.falling_frames + 1 >= FALL_FRAMES
         THEN [player |-> [pl EXCEPT !.falling_frames = 0,
                                     !.p = <<pl.p[1], pl.p[2] + 1>>,
                                     !.state = "Standing"],
               landed |-> TRUE]
         ELSE [player |-> [pl EXCEPT !.falling_frames = @ + 1],
               landed |-> FALSE]
    ELSE [player |-> pl, landed |-> FALSE]

\* walk_step that completes the walk one tick late (> for >=).
walk_step_late(pl) ==
    IF pl.state = "Walking"
    THEN IF pl.walking_frames + 1 > WALK_FRAMES
         THEN [pl EXCEPT
                 !.walking_frames = @ + 1,
                 !.p = IF pl.direction = "Left"
                       THEN <<pl.p[1] - 1, pl.p[2]>>
                       ELSE <<pl.p[1] + 1, pl.p[2]>>,
                 !.state = "Standing"]
         ELSE [pl EXCEPT !.walking_frames = @ + 1]
    ELSE pl

\* player_move, lines 378-389: a tick of walking.
walk_step(pl) ==
    IF pl.state = "Walking"
    THEN IF pl.walking_frames + 1 >= WALK_FRAMES
         THEN [pl EXCEPT
                 !.walking_frames = @ + 1,
                 !.p = IF pl.direction = "Left"
                       THEN <<pl.p[1] - 1, pl.p[2]>>
                       ELSE <<pl.p[1] + 1, pl.p[2]>>,
                 !.state = "Standing"]
         ELSE [pl EXCEPT !.walking_frames = @ + 1]
    ELSE pl

\* player_move yields the new player and the new depth.
player_move(pl, c, dep) ==
    LET fallen == fall_step(footing_check(pl, c))
    IN  [player |-> walk_step(fallen.player),
         depth |-> IF fallen.landed THEN dep + 1 ELSE dep]

\* dig_or_walk that starts a walk into any neighbouring cell, a Block too.
dig_or_walk_into_blocks(g, pl, direction) ==
    LET n == neighbor(pl.p, direction)
    IN  IF direction \in {"Left", "Right"}
        THEN IF pl.state = "Standing" /\ n # <<>>
             THEN [g |-> g,
                   player |-> [pl EXCEPT !.state = "Walking",
                                         !.direction = direction,
                                         !.walking_frames = 0]]
             ELSE [g |-> g, player |-> pl]
        ELSE IF n # <<>> /\ g.cells[n[1]].cell_type = "Block"
             THEN [g |-> dig(g, n[1]), player |-> pl]
             ELSE [g |-> g, player |-> pl]

\* dig_or_walk that starts a walk at the edge of the grid too (no test of
\* the neighbour being there).
dig_or_walk_off_grid(g, pl, direction) ==
    LET n == neighbor(pl.p, direction)
    IN  IF direction \in {"Left", "Right"}
        THEN IF pl.state = "Standing"
             THEN IF n = <<>> \/ g.cells[n[1]].cell_type \in {"None", "Air"}
                  THEN [g |-> g,
                        player |-> [pl EXCEPT !.state = "Walking",
                                              !.direction = direction,
                                              !.walking_frames = 0]]
                  ELSE [g |-> dig(g, n[1]), player |-> pl]
             ELSE [g |-> g, player |-> pl]
        ELSE IF n # <<>> /\ g.cells[n[1]].cell_type = "Block"
             THEN [g |-> dig(g, n[1]), player |-> pl]
             ELSE [g |-> g, player |-> pl]

\* dig_or_walk on g = [cells, air, is_clear, requested_sounds] and the player;
\* yields g and the player.
dig_or_walk(g, pl, direction) ==
    LET n == neighbor(pl.p, direction)
    IN  IF direction \in {"Left", "Right"}
        THEN IF pl.state = "Standing" /\ n # <<>>
             THEN IF g.cells[n[1]].cell_type \in {"None", "Air"}
                  THEN [g |-> g,
                        player |-> [pl EXCEPT !.state = "Walking",
                                              !.direction = direction,
                                              !.walking_frames = 0]]
                  ELSE [g |-> dig(g, n[1]), player |-> pl]
             ELSE [g |-> g, player |-> pl]
        ELSE IF n # <<>> /\ g.cells[n[1]].cell_type = "Block"
             THEN [g |-> dig(g, n[1]), player |-> pl]
             ELSE [g |-> g, player |-> pl]

(***************************************************************************)
(* Game::new.  The grid of the program is 9 columns by 6 + 100 + 7 rows;   *)
(* the model keeps the three bands (empty space, coloured field, Clear     *)
(* floor) and scales their sizes down.  The random generator is a choice   *)
(* of one of a bounded set of seeds: a seed fixes the colours of the field *)
(* and the place of the Air cell.                                          *)
(***************************************************************************)
GameXLen == 4
UP_SPACE_HEIGHT == 1
NORMAL_BLOCKS_HEIGHT == 3
CLEAR_BLOCKS_HEIGHT == 1
GameYLen == UP_SPACE_HEIGHT + NORMAL_BLOCKS_HEIGHT + CLEAR_BLOCKS_HEIGHT
\* The number of update calls explored one by one.
MaxTicks == 11
\* The air left after the long wait explored at the start of a game.
IdleAir == 4

\* BlockColor::from_u32
from_u32(n) ==
    CASE n % 4 = 0 -> "Red"
      [] n % 4 = 1 -> "Yellow"
      [] n % 4 = 2 -> "Green"
      [] n % 4 = 3 -> "Blue"

\* The colours drawn for the upper left corner of the field, row by row,
\* one table per seed.
Fields ==
    << << <<"Green",  "Yellow", "Red",    "Red"  >>,
          <<"Yellow", "Red",    "Red",    "Blue" >>,
          <<"Yellow", "Green",  "Green",  "Blue" >> >>,
       << <<"Red",    "Red",    "Yellow", "Blue"  >>,
          <<"Green",  "Green",  "Blue",   "Yellow">>,
          <<"Red",    "Red",    "Red",    "Green" >> >>,
       << <<"Yellow", "Green",  "Brown",  "Brown" >>,
          <<"Brown",  "Blue",   "Green",  "Red"   >>,
          <<"Green",  "Yellow", "Brown",  "Blue"  >> >>,
       << <<"Green",  "Red",    "Green",  "Blue"  >>,
          <<"Green",  "Red",    "Yellow", "Blue"  >>,
          <<"Green",  "Red",    "Red",    "Blue"  >> >> >>

\* The Air cells drawn, as offsets <<x, row of the field>>, per seed.
AirSpots ==
    << {}, {<<3, 1>>}, {<<2, 1>>}, {} >>

Seeds == DOMAIN Fields

\* The number of Air cells Game::new draws: one per AIR_SPAWN_INTERVAL rows
\* below the free rows (a draw past the last row places nothing).
AirDraws ==
    (GameYLen - UP_SPACE_HEIGHT + AIR_SPAWN_INTERVAL - 1) \div AIR_SPAWN_INTERVAL

\* The colour drawn for column x of row r of the field.
FieldColor(seed, x, r) ==
    IF r + 1 <= Len(Fields[seed]) /\ x + 1 <= Len(Fields[seed][r + 1])
    THEN Fields[seed][r + 1][x + 1]
    ELSE from_u32(x + 2 * r)

\* The grid built by Game::new on a grid of xl columns.
NewCells(seed, xl) ==
    [p \in PointsOf(xl, GameYLen) |->
        IF p[2] < UP_SPACE_HEIGHT THEN CellNew
        ELSE IF p[2] > GameYLen - 1 - CLEAR_BLOCKS_HEIGHT
             THEN [CellNew EXCEPT !.cell_type = "Block", !.color = "Clear"]
             ELSE [CellNew EXCEPT
                     !.cell_type =
                         IF <<p[1], p[2] - UP_SPACE_HEIGHT>> \in AirSpots[seed]
                         THEN "Air" ELSE "Block",
                     !.color = FieldColor(seed, p[1], p[2] - UP_SPACE_HEIGHT)]]

\* Game::new
GameNew(seed) ==
    /\ x_len = GameXLen
    /\ y_len = GameYLen
    /\ Cardinality(AirSpots[seed]) <= AirDraws
    /\ cells = NewCells(seed, GameXLen)
    /\ player = PlayerNew(GameXLen, UP_SPACE_HEIGHT)
    /\ is_over = FALSE
    /\ is_clear = FALSE
    /\ frame = -1
    /\ depth = 0
    /\ camera_y = 0
    /\ requested_sounds = <<>>

Init ==
    /\ \E seed \in Seeds : GameNew(seed)
    /\ command = "None"
    /\ pc = "update"
    /\ panicked = FALSE
    /\ steps = 0
    /\ script = <<>>

(***************************************************************************)
(* The frame loop of main: update(command), render, play_sounds.  update   *)
(* is taken one call at a time, in the order of its body.                  *)
(***************************************************************************)
\* UpdateCall without the early return of a game that is over or cleared.
UpdateCallNoReturn(cmd) ==
    /\ pc = "update"
    /\ ~panicked
    /\ steps' = steps + 1
    /\ frame' = frame + 1
    /\ command' = cmd
    /\ pc' = "player_move"
    /\ UNCHANGED <<x_len, y_len, cells, player, is_over, is_clear, depth,
                   camera_y, requested_sounds, panicked>>

\* update, lines 302-307: the frame counter and the early return.
UpdateCall(cmd) ==
    /\ pc = "update"
    /\ ~panicked
    /\ steps' = steps + 1
    /\ frame' = frame + 1
    /\ command' = cmd
    /\ pc' = IF is_over \/ is_clear THEN "play_sounds" ELSE "player_move"
    /\ UNCHANGED <<x_len, y_len, cells, player, is_over, is_clear, depth,
                   camera_y, requested_sounds, panicked>>

\* One turn of the loop of main with any command.
Update(cmd) ==
    /\ steps < MaxTicks
    /\ UpdateCall(cmd)
    /\ UNCHANGED script

\* update, line 309
PlayerMove ==
    /\ pc = "player_move"
    /\ LET r == player_move(player, cells, depth)
       IN  /\ player' = r.player
           /\ depth' = r.depth
    /\ pc' = "fall_ungrounded_blocks"
    /\ UNCHANGED <<x_len, y_len, cells, is_over, is_clear, frame, camera_y,
                   requested_sounds, command, panicked, steps, script>>

\* update, line 311
FallUngroundedBlocks ==
    /\ pc = "fall_ungrounded_blocks"
    /\ LET r == fall_ungrounded_blocks(cells)
       IN  /\ cells' = r.cells
           /\ panicked' = r.panicked
           /\ pc' = IF r.panicked THEN "panic" ELSE "set_leaders"
    /\ UNCHANGED <<x_len, y_len, player, is_over, is_clear, frame, depth,
                   camera_y, requested_sounds, command, steps, script>>

\* update, line 313
SetLeaders ==
    /\ pc = "set_leaders"
    /\ cells' = set_leaders(cells)
    /\ pc' = "erase_connected_blocks"
    /\ UNCHANGED <<x_len, y_len, player, is_over, is_clear, frame, depth,
                   camera_y, requested_sounds, command, panicked, steps, script>>

\* update, line 315
EraseConnectedBlocks ==
    /\ pc = "erase_connected_blocks"
    /\ cells' = erase_connected_blocks(cells)
    /\ pc' = "dig_or_walk"
    /\ UNCHANGED <<x_len, y_len, player, is_over, is_clear, frame, depth,
                   camera_y, requested_sounds, command, panicked, steps, script>>

\* DigOrWalk without the return of update when the dig cleared the game.
DigOrWalkNoReturn ==
    /\ pc = "dig_or_walk"
    /\ LET g == [cells |-> cells, air |-> player.air, is_clear |-> is_clear,
                 requested_sounds |-> requested_sounds]
           r == IF command = "None" THEN [g |-> g, player |-> player]
                ELSE dig_or_walk(g, player, command)
       IN  /\ cells' = r.g.cells
           /\ player' = [r.player EXCEPT !.air = r.g.air]
           /\ is_clear' = r.g.is_clear
           /\ requested_sounds' = r.g.requested_sounds
           /\ pc' = "update_grounded"
    /\ UNCHANGED <<x_len, y_len, is_over, frame, depth, camera_y, command,
                   panicked, steps, script>>

\* update, lines 317-325: the command, and the return when the dig cleared.
DigOrWalk ==
    /\ pc = "dig_or_walk"
    /\ LET g == [cells |-> cells, air |-> player.air, is_clear |-> is_clear,
                 requested_sounds |-> requested_sounds]
           r == IF command = "None" THEN [g |-> g, player |-> player]
                ELSE dig_or_walk(g, player, command)
       IN  /\ cells' = r.g.cells
           /\ player' = [r.player EXCEPT !.air = r.g.air]
           /\ is_clear' = r.g.is_clear
           /\ requested_sounds' = r.g.requested_sounds
           /\ pc' = IF command # "None" /\ r.g.is_clear THEN "play_sounds"
                    ELSE "update_grounded"
    /\ UNCHANGED <<x_len, y_len, is_over, frame, depth, camera_y, command,
                   panicked, steps, script>>

\* update, line 327
UpdateGrounded ==
    /\ pc = "update_grounded"
    /\ cells' = update_grounded(cells)
    /\ pc' = "air"
    /\ UNCHANGED <<x_len, y_len, player, is_over, is_clear, frame, depth,
                   camera_y, requested_sounds, command, panicked, steps, script>>

\* air_and_crush without the air consumption (`self.player.air -= 1`).
air_and_crush_no_use(c, pl, over, sounds) ==
    LET pickup == c[pl.p].cell_type = "Air"
        c1 == IF pickup THEN [c EXCEPT ![pl.p].cell_type = "None"] ELSE c
        a1 == IF pickup THEN clamp(0, pl.air + AirPickup, AIR_MAX) ELSE pl.air
        s1 == IF pickup THEN Append(sounds, "shrink.wav") ELSE sounds
        s2 == IF a1 <= 0 THEN Append(s1, "crash.wav") ELSE s1
        crushed == c1[pl.p].cell_type = "Block"
        s3 == IF crushed THEN Append(s2, "crash.wav") ELSE s2
    IN  [cells |-> c1, player |-> [pl EXCEPT !.air = a1],
         is_over |-> (over \/ a1 <= 0 \/ crushed), requested_sounds |-> s3]

\* air_and_crush whose pickup is not capped at AIR_MAX (no clamp).
air_and_crush_no_cap(c, pl, over, sounds) ==
    LET pickup == c[pl.p].cell_type = "Air"
        c1 == IF pickup THEN [c EXCEPT ![pl.p].cell_type = "None"] ELSE c
        a1 == IF pickup THEN pl.air + AirPickup ELSE pl.air
        s1 == IF pickup THEN Append(sounds, "shrink.wav") ELSE sounds
        a2 == a1 - 1
        s2 == IF a2 <= 0 THEN Append(s1, "crash.wav") ELSE s1
        crushed == c1[pl.p].cell_type = "Block"
        s3 == IF crushed THEN Append(s2, "crash.wav") ELSE s2
    IN  [cells |-> c1, player |-> [pl EXCEPT !.air = a2],
         is_over |-> (over \/ a2 <= 0 \/ crushed), requested_sounds |-> s3]

\* air_and_crush without the crush test (lines 343-347).
air_and_crush_no_crush(c, pl, over, sounds) ==
    LET pickup == c[pl.p].cell_type = "Air"
        c1 == IF pickup THEN [c EXCEPT ![pl.p].cell_type = "None"] ELSE c
        a1 == IF pickup THEN clamp(0, pl.air + AirPickup, AIR_MAX) ELSE pl.air
        s1 == IF pickup THEN Append(sounds, "shrink.wav") ELSE sounds
        a2 == a1 - 1
        s2 == IF a2 <= 0 THEN Append(s1, "crash.wav") ELSE s1
    IN  [cells |-> c1, player |-> [pl EXCEPT !.air = a2],
         is_over |-> (over \/ a2 <= 0), requested_sounds |-> s2]

\* update, lines 329-349: air pickup, air consumption, crush, camera.
air_and_crush(c, pl, over, sounds) ==
    LET pickup == c[pl.p].cell_type = "Air"
        c1 == IF pickup THEN [c EXCEPT ![pl.p].cell_type = "None"] ELSE c
        a1 == IF pickup THEN clamp(0, pl.air + AirPickup, AIR_MAX) ELSE pl.air
        s1 == IF pickup THEN Append(sounds, "shrink.wav") ELSE sounds
        a2 == a1 - 1
        s2 == IF a2 <= 0 THEN Append(s1, "crash.wav") ELSE s1
        crushed == c1[pl.p].cell_type = "Block"
        s3 == IF crushed THEN Append(s2, "crash.wav") ELSE s2
    IN  [cells |-> c1, player |-> [pl EXCEPT !.air = a2],
         is_over |-> (over \/ a2 <= 0 \/ crushed), requested_sounds |-> s3]

Air ==
    /\ pc = "air"
    /\ LET r == air_and_crush(cells, player, is_over, requested_sounds)
       IN  /\ cells' = r.cells
           /\ player' = r.player
           /\ is_over' = r.is_over
           /\ requested_sounds' = r.requested_sounds
    /\ camera_y' = player.p[2] - 5
    /\ pc' = "play_sounds"
    /\ UNCHANGED <<x_len, y_len, is_clear, frame, depth, command, panicked,
                   steps, script>>

\* main: play_sounds drains the queue after every update, and the next turn
\* of the loop starts from Command::None.
PlaySounds ==
    /\ pc = "play_sounds"
    /\ requested_sounds' = <<>>
    /\ command' = "None"
    /\ pc' = "update"
    /\ UNCHANGED <<x_len, y_len, cells, player, is_over, is_clear, frame,
                   depth, camera_y, panicked, steps, script>>

\* update(Command::None) changes nothing but frame and air in this state:
\* each pass of the call maps the state to itself.
Quiescent ==
    /\ pc = "update"
    /\ ~is_over /\ ~is_clear /\ ~panicked
    /\ requested_sounds = <<>>
    /\ player_move(player, cells, depth) = [player |-> player, depth |-> depth]
    /\ fall_ungrounded_blocks(cells) = [cells |-> cells, panicked |-> FALSE]
    /\ set_leaders(cells) = cells
    /\ erase_connected_blocks(cells) = cells
    /\ update_grounded(cells) = cells
    /\ cells[player.p].cell_type = "None"
    /\ camera_y = player.p[2] - 5

\* player.air - IdleAir successive calls update(Command::None) in a quiescent
\* state, taken as one step: each call adds 1 to frame and takes 1 from air.
\* The long wait is explored after the first call of a game only.
Idle ==
    /\ Quiescent
    /\ steps = 1
    /\ player.air > IdleAir
    /\ frame' = frame + (player.air - IdleAir)
    /\ player' = [player EXCEPT !.air = IdleAir]
    /\ UNCHANGED <<x_len, y_len, cells, is_over, is_clear, depth, camera_y,
                   requested_sounds, command, pc, panicked, steps, script>>

Next ==
    \/ \E cmd \in Command : Update(cmd)
    \/ Idle
    \/ PlayerMove
    \/ FallUngroundedBlocks
    \/ SetLeaders
    \/ EraseConnectedBlocks
    \/ DigOrWalk
    \/ UpdateGrounded
    \/ Air
    \/ PlaySounds

Spec == Init /\ [][Next]_vars

(***************************************************************************)
(* The game under scripted input: a seed and the commands of the           *)
(* successive update calls.                                                *)
(***************************************************************************)
RECURSIVE Nones(_)
Nones(n) == IF n = 0 THEN <<>> ELSE <<"None">> \o Nones(n - 1)

\* The ticks a block stays in place after it lost support: it starts to
\* shake in the pass of the next tick.
FallDelay == SHAKE_FRAMES + FALL_FRAMES + 5

Scripts ==
    << \* walk to the left wall, dig down to the last row of the field, dig
       \* the two Green blocks to the right, and wait
       [seed |-> 1,
        commands |-> <<"Left", "None", "None", "Left", "None", "None",
                       "Down", "None", "None", "Down", "None", "None",
                       "None", "None", "None", "Right">>
                     \o Nones(FallDelay + 2)],
       \* dig down twice, dig the Green blocks to the left, and wait
       [seed |-> 2,
        commands |-> <<"Down", "None", "None", "None", "Down", "None",
                       "None", "None", "Left">>
                     \o Nones(FallDelay + 2)],
       \* dig down one row, dig the Blue block to the right, walk into its
       \* place and fall from there into the Air cell
       [seed |-> 2,
        commands |-> <<"Down", "None", "None", "Right", "Right">> \o Nones(8)],
       \* walk to the right wall and back, dig down one row, dig the Red
       \* blocks to the left (they hold the Yellow block under the player),
       \* and start to walk left just before the Yellow block falls away
       [seed |-> 4,
        commands |-> <<"Right", "None", "None", "Left", "None", "None",
                       "Down", "None", "None", "Left">>
                     \o Nones(FallDelay - 3) \o <<"Left">> \o Nones(6)],
       \* dig the Red blocks below (the Yellow block at (1, 1) loses its
       \* support), fall two rows, walk left under the Yellow block and wait
       \* there until it comes down
       [seed |-> 1,
        commands |-> <<"Down">> \o Nones(6) \o <<"Left">>
                     \o Nones(FallDelay)] >>

ScriptInit ==
    /\ \E k \in DOMAIN Scripts :
          /\ GameNew(Scripts[k].seed)
          /\ script = Scripts[k].commands
    /\ command = "None"
    /\ pc = "update"
    /\ panicked = FALSE
    /\ steps = 0

ScriptedUpdate ==
    /\ script # <<>>
    /\ UpdateCall(Head(script))
    /\ script' = Tail(script)

ScriptNext ==
    \/ ScriptedUpdate
    \/ PlayerMove
    \/ FallUngroundedBlocks
    \/ SetLeaders
    \/ EraseConnectedBlocks
    \/ DigOrWalk
    \/ UpdateGrounded
    \/ Air
    \/ PlaySounds

SpecScript == ScriptInit /\ [][ScriptNext]_vars

(***************************************************************************)
(* The scripted games played to their end: when the script is over the     *)
(* commands are Command::None, and the frame loop of main goes on calling  *)
(* update (weak fairness) until the game is over or cleared.  A wait in a  *)
(* quiescent state is taken as one step.                                   *)
(***************************************************************************)
\* The script is over and the calls update(Command::None) to come, down to
\* IdleAir of air, change nothing but frame and air.
CanIdle == Quiescent /\ script = <<>> /\ player.air > IdleAir

LiveUpdate ==
    /\ ~(is_over \/ is_clear)
    /\ ~CanIdle
    /\ UpdateCall(IF script = <<>> THEN "None" ELSE Head(script))
    /\ script' = IF script = <<>> THEN script ELSE Tail(script)

\* player.air - IdleAir successive calls update(Command::None), as one step.
LiveIdle ==
    /\ CanIdle
    /\ frame' = frame + (player.air - IdleAir)
    /\ steps' = steps + (player.air - IdleAir)
    /\ player' = [player EXCEPT !.air = IdleAir]
    /\ UNCHANGED <<x_len, y_len, cells, is_over, is_clear, depth, camera_y,
                   requested_sounds, command, pc, panicked, script>>

LiveNext ==
    \/ LiveUpdate
    \/ LiveIdle
    \/ PlayerMove
    \/ FallUngroundedBlocks
    \/ SetLeaders
    \/ EraseConnectedBlocks
    \/ DigOrWalk
    \/ UpdateGrounded
    \/ Air
    \/ PlaySounds

\* A step of LiveNext is possible: every pass of update is enabled at its
\* place, and update is called as long as the game is neither over nor
\* cleared (nothing runs after a panic).
LiveEnabled ==
    /\ pc # "panic"
    /\ pc = "update" => ~panicked /\ ~(is_over \/ is_clear)

\* The frame loop keeps running: weak fairness of LiveNext, written out with
\* LiveEnabled for ENABLED <<LiveNext>>_vars; a step of the specification
\* that changes vars is a step of LiveNext.
LiveFair == []<>(~LiveEnabled) \/ []<><<TRUE>>_vars

SpecLive == ScriptInit /\ [][LiveNext]_vars /\ LiveFair

(***************************************************************************)
(* The passes over the grid alone, in the order of update, on any small    *)
(* grid: set_leaders, erase_connected_blocks, update_grounded,             *)
(* fall_ungrounded_blocks, and again.  The cells of the first grid are     *)
(* Empty, Air or Blocks of two colours, and each has finished shaking and  *)
(* falling: a cell that the support pass leaves unsupported is relocated   *)
(* by the next gravity pass.                                               *)
(***************************************************************************)
GridXLen == 3
GridYLen == 3
MaxNonEmpty == 5
MaxCycles == 1

GridKinds == {"None", "Air", "Red", "Yellow"}

GridCell(kind) ==
    IF kind = "None" THEN CellNew
    ELSE [CellNew EXCEPT
            !.cell_type = IF kind = "Air" THEN "Air" ELSE "Block",
            !.color = IF kind = "Air" THEN "Red" ELSE kind,
            !.shaking_frames = SHAKE_FRAMES + 1,
            !.falling_frames = FALL_FRAMES + 1]

\* The variables of the game that the passes over the grid do not touch.
NoGame ==
    /\ player = PlayerNew(x_len, 1)
    /\ is_over = FALSE
    /\ is_clear = FALSE
    /\ frame = -1
    /\ depth = 0
    /\ camera_y = 0
    /\ requested_sounds = <<>>
    /\ command = "None"
    /\ panicked = FALSE
    /\ steps = 0
    /\ script = <<>>

GridInit ==
    /\ x_len = GridXLen
    /\ y_len = GridYLen
    /\ \E layout \in [PointsOf(GridXLen, GridYLen) -> GridKinds] :
          /\ Cardinality({p \in DOMAIN layout : layout[p] # "None"}) <= MaxNonEmpty
          /\ cells = [p \in DOMAIN layout |-> GridCell(layout[p])]
    /\ pc = "set_leaders"
    /\ NoGame

GridUnchanged ==
    UNCHANGED <<x_len, y_len, player, is_over, is_clear, frame, depth,
                camera_y, requested_sounds, command, script>>

GridSetLeaders ==
    /\ pc = "set_leaders"
    /\ cells' = set_leaders(cells)
    /\ pc' = "erase_connected_blocks"
    /\ UNCHANGED <<panicked, steps>>
    /\ GridUnchanged

GridEraseConnectedBlocks ==
    /\ pc = "erase_connected_blocks"
    /\ cells' = erase_connected_blocks(cells)
    /\ pc' = "update_grounded"
    /\ UNCHANGED <<panicked, steps>>
    /\ GridUnchanged

GridUpdateGrounded ==
    /\ pc = "update_grounded"
    /\ cells' = update_grounded(cells)
    /\ pc' = "fall_ungrounded_blocks"
    /\ UNCHANGED <<panicked, steps>>
    /\ GridUnchanged

GridFallUngroundedBlocks ==
    /\ pc = "fall_ungrounded_blocks"
    /\ steps < MaxCycles
    /\ LET r == fall_ungrounded_blocks(cells)
       IN  /\ cells' = r.cells
           /\ panicked' = r.panicked
           /\ pc' = IF r.panicked THEN "panic" ELSE "set_leaders"
    /\ steps' = steps + 1
    /\ GridUnchanged

GridNext ==
    \/ GridSetLeaders
    \/ GridEraseConnectedBlocks
    \/ GridUpdateGrounded
    \/ GridFallUngroundedBlocks

SpecGrid == GridInit /\ [][GridNext]_vars

(***************************************************************************)
(* The Gravity Engine alone: fall_ungrounded_blocks pass after pass, with  *)
(* no support pass in between, on a grid of CELLS_X_LEN columns whose only *)
(* cell that is not Empty is a Block at (0, 0).                            *)
(***************************************************************************)
GravityYLen == 2
MaxPasses == 53

GravityInit ==
    /\ x_len = CELLS_X_LEN
    /\ y_len = GravityYLen
    /\ \E color \in BlockColor :
          cells = [p \in PointsOf(CELLS_X_LEN, GravityYLen) |->
                     IF p = <<0, 0>>
                     THEN [CellNew EXCEPT !.cell_type = "Block", !.color = color]
                     ELSE CellNew]
    /\ pc = "fall_ungrounded_blocks"
    /\ NoGame

GravityPass ==
    /\ pc = "fall_ungrounded_blocks"
    /\ steps < MaxPasses
    /\ LET r == fall_ungrounded_blocks(cells)
       IN  /\ cells' = r.cells
           /\ panicked' = r.panicked
           /\ pc' = IF r.panicked THEN "panic" ELSE "fall_ungrounded_blocks"
    /\ steps' = steps + 1
    /\ GridUnchanged

GravityNext == GravityPass

SpecGravity == GravityInit /\ [][GravityNext]_vars

(***************************************************************************)
(* Properties.  Connectivity is defined here from adjacency alone, without *)
(* the labels: the component of a Block is the least set that holds it and *)
(* every Block of its colour 4-adjacent to a member.                       *)
(***************************************************************************)
Adjacent(p, q) ==
    \/ p[1] = q[1] /\ (p[2] = q[2] + 1 \/ q[2] = p[2] + 1)
    \/ p[2] = q[2] /\ (p[1] = q[1] + 1 \/ q[1] = p[1] + 1)

RECURSIVE Closure(_, _)
Closure(c, S) ==
    LET T == S \cup {q \in DOMAIN c :
                       /\ c[q].cell_type = "Block"
                       /\ \E p \in S : Adjacent(p, q) /\ c[p].color = c[q].color}
    IN  IF T = S THEN S ELSE Closure(c, T)

Component(c, p) == Closure(c, {p})

IsBlock(c, p) == c[p].cell_type = "Block"

NonEmptyCount(c) == Cardinality({q \in DOMAIN c : c[q].cell_type # "None"})

\* C1: after set_leaders, two Block cells have equal labels if and only if
\* they are joined by a path of 4-adjacent Block cells of the same colour,
\* and every Empty or Air cell has no label.
LabelingCorrect ==
    pc = "erase_connected_blocks" =>
        \A p \in Points :
            /\ ~IsBlock(cells, p) => cells[p].leader = <<>>
            /\ IsBlock(cells, p) =>
                  \A q \in Points :
                      IsBlock(cells, q) =>
                          (cells[p].leader = cells[q].leader
                              <=> q \in Component(cells, p))

\* C1 witness: the labeler has run on a grid where two Blocks share a label,
\* two Blocks of one colour have different labels, and two Blocks of one
\* colour are separated by an Air cell.
LabelingWitness ==
    /\ pc = "erase_connected_blocks"
    /\ \E p, q \in Points :
          /\ p # q /\ IsBlock(cells, p) /\ IsBlock(cells, q)
          /\ cells[p].leader = cells[q].leader
    /\ \E p, q \in Points :
          /\ IsBlock(cells, p) /\ IsBlock(cells, q)
          /\ cells[p].color = cells[q].color
          /\ cells[p].leader # cells[q].leader
          /\ \E a \in Points :
                /\ cells[a].cell_type = "Air" /\ cells[a].color = cells[p].color
                /\ Adjacent(p, a) /\ Adjacent(a, q)

\* The member cell m has support below it: it is in the bottom row, or the
\* cell directly below it is not Empty and is supported.
SupportBelow(c, m) ==
    \/ m[2] = CELLS_Y_MAX
    \/ /\ c[<<m[1], m[2] + 1>>].cell_type # "None"
       /\ c[<<m[1], m[2] + 1>>].grounded

\* A component, or a single Air cell.
Unit(c, p) == IF IsBlock(c, p) THEN Component(c, p) ELSE {p}

\* C2: after every pass of update_grounded, a component (or a single Air
\* cell) is supported if and only if one of its members is in the bottom row
\* or has a supported cell that is not Empty directly below it.
SupportedIffSupportBelow ==
    pc = "air" =>
        \A p \in Points :
            cells[p].cell_type # "None" =>
                (cells[p].grounded <=> \E m \in Unit(cells, p) : SupportBelow(cells, m))

\* The grid (and panic flag) before the i-th iteration of the gravity pass
\* over c.
FallBefore(c, i) == fall_scan([cells |-> c, panicked |-> FALSE], 1, i - 1)

Contents(cell) ==
    <<cell.cell_type, cell.color, cell.block_life, cell.shaking_frames,
      cell.falling_frames>>

\* An iteration of the gravity pass at p that takes the grid g to h and
\* changes the kind of some cell is the relocation of the cell at p.
RelocationMovesOneCell(g, p, h) ==
    (\E q \in DOMAIN g : g[q].cell_type # h[q].cell_type) =>
        LET down  == <<p[1], p[2] + 1>>
            down2 == <<p[1], p[2] + 2>>
        IN  /\ down \in DOMAIN g
            /\ g[p].cell_type # "None"
            /\ ~g[p].grounded
            /\ Contents(h[down]) = Contents(g[p])
            /\ h[p].cell_type = "None"
            /\ \A q \in DOMAIN g \ {p, down} :
                  \/ Contents(h[q]) = Contents(g[q])
                  \/ /\ q = down2
                     /\ g[q].cell_type = "Air"
                     /\ h[q] = [g[q] EXCEPT !.cell_type = "None"]

\* C3: in a gravity pass each relocation copies the contents of exactly one
\* unsupported cell that is not Empty into the cell directly below it and
\* leaves the source Empty, and the pass never increases the number of cells
\* that are not Empty.
GravityConservation ==
    [][pc = "fall_ungrounded_blocks" =>
          /\ \A i \in 1 .. ScanLen :
                LET g == FallBefore(cells, i)
                IN  ~g.panicked =>
                        RelocationMovesOneCell(g.cells, ScanUp(i),
                                               fall_cell(g.cells, ScanUp(i)).cells)
          /\ NonEmptyCount(cells') <= NonEmptyCount(cells)]_vars

\* C3 witness: a gravity pass has relocated a Block and an Air cell, and has
\* popped an Air cell: fewer cells are left than the grid can have started
\* with only if one was popped.
GravityWitness ==
    /\ pc = "set_leaders"
    /\ steps > 0
    /\ \E p, q \in Points :
          /\ cells[p].fell /\ cells[p].cell_type = "Block"
          /\ cells[q].fell /\ cells[q].cell_type = "Air"
          /\ q[2] + 1 <= CELLS_Y_MAX
          /\ cells[<<q[1], q[2] + 1>>].cell_type = "None"
          /\ cells[<<q[1], q[2] + 1>>].shaking_frames > SHAKE_FRAMES

\* C4: the Cascade Eraser, which runs after the gravity pass and the
\* relabelling and before the support pass, clears every member of a
\* component that holds a Block relocated in this tick and has at least 4
\* cells, and clears no cell of a component of fewer than 4 cells.
CascadeThreshold ==
    [][pc = "erase_connected_blocks" =>
          /\ pc' \in {"dig_or_walk", "update_grounded"}
          /\ \A p \in Points :
                IsBlock(cells, p) =>
                    LET comp == Component(cells, p)
                    IN  /\ (Cardinality(comp) >= 4 /\ \E q \in comp : cells[q].fell)
                            => cells'[p].cell_type = "None"
                        /\ Cardinality(comp) < 4 => cells'[p] = cells[p]]_vars

\* C4 witness: the eraser has cleared a component of at least 4 cells that a
\* relocated Block joined, and has left alone a relocated Block in a
\* component of fewer than 4.
CascadeWitness ==
    /\ pc = "update_grounded"
    /\ Cardinality({p \in Points :
                      /\ cells[p].cell_type = "None" /\ cells[p].leader # <<>>
                      /\ cells[p].color = "Red"}) >= 4
    /\ \E p \in Points : IsBlock(cells, p) /\ cells[p].fell

\* The Block that the command of this tick digs, as an Option: the command
\* is about to be resolved, the neighbour of the player in its direction is
\* a Block, and for Left and Right the player is Standing.
DigTarget ==
    IF pc = "dig_or_walk" /\ command # "None"
    THEN LET n == neighbor(player.p, command)
         IN  IF /\ n # <<>>
                /\ IsBlock(cells, n[1])
                /\ (command \in {"Up", "Down"} \/ player.state = "Standing")
             THEN n ELSE <<>>
    ELSE <<>>

SameLabel(c, t) == {q \in DOMAIN c : c[q].leader = c[t].leader}

\* C5: digging a Clear Block sets is_clear and leaves the kind, colour and
\* durability of every other cell as they were.
DigClearKeepsOtherCells ==
    [][(DigTarget # <<>> /\ cells[DigTarget[1]].color = "Clear") =>
          /\ is_clear'
          /\ \A q \in Points \ {DigTarget[1]} :
                /\ cells'[q].cell_type = cells[q].cell_type
                /\ cells'[q].color = cells[q].color
                /\ cells'[q].block_life = cells[q].block_life]_vars

\* C6: digging a Block that is not Brown and has durability > 0 makes every
\* cell of its component (the cells that share its label) Empty in that
\* step, and changes the kind of no cell outside the component.
DigErasesComponent ==
    [][(/\ DigTarget # <<>>
        /\ cells[DigTarget[1]].color # "Brown"
        /\ cells[DigTarget[1]].block_life > 0) =>
          LET t == DigTarget[1]
          IN  /\ SameLabel(cells, t) = Component(cells, t)
              /\ \A q \in Points :
                    cells'[q].cell_type =
                        IF q \in Component(cells, t) THEN "None"
                        ELSE cells[q].cell_type]_vars

\* C6 witness: a dig has just erased a component of several Blocks that are
\* not Brown, next to Blocks it left in place.
DigErasesWitness ==
    /\ pc \in {"update_grounded", "play_sounds"}
    /\ command # "None"
    /\ \E p, q \in Points :
          /\ p # q
          /\ cells[p].cell_type = "None" /\ cells[q].cell_type = "None"
          /\ cells[p].leader # <<>> /\ cells[p].leader = cells[q].leader
          /\ cells[p].color # "Brown"
          /\ cells[p].block_life = 0
          /\ \E r \in Points : Adjacent(p, r) /\ IsBlock(cells, r)

\* The durabilities of a Brown Block after 0, 1, 2 and 3 digs.
BrownLives == {BLOCK_LIFE_MAX - 25 * k : k \in 0 .. 3}

\* C7: a Brown Block has the durability of 0 to 3 digs; a dig of a Brown
\* Block that has had fewer than 3 takes 25 from its durability and changes
\* nothing else (no cell kind, not the air); the dig after the third erases
\* the cells that share its label and no other, takes the air penalty (23% of
\* AIR_MAX, air floored at 0) and enqueues the break sound.
BrownTakesFourDigs ==
    /\ [](\A p \in Points :
             (IsBlock(cells, p) /\ cells[p].color = "Brown")
                 => cells[p].block_life \in BrownLives)
    /\ [][(DigTarget # <<>> /\ cells[DigTarget[1]].color = "Brown") =>
             LET t == DigTarget[1]
                 life == cells[t].block_life
             IN  IF life > BLOCK_LIFE_MAX - 25 * 3
                 THEN /\ cells' = [cells EXCEPT ![t].block_life = life - 25]
                      /\ player' = player
                      /\ requested_sounds' = requested_sounds
                 ELSE /\ \A q \in Points :
                            cells'[q].cell_type =
                                IF q \in SameLabel(cells, t) THEN "None"
                                ELSE cells[q].cell_type
                      /\ player'.air =
                            IF player.air - (AIR_MAX * 23) \div 100 < 0 THEN 0
                            ELSE player.air - (AIR_MAX * 23) \div 100
                      /\ requested_sounds' =
                            Append(requested_sounds, "break_brown.wav")]_vars

\* C7 witness: the fourth dig of a Brown Block has just erased it together
\* with another Brown Block of its component, with the air floored at 0.
BrownWitness ==
    /\ pc = "update_grounded"
    /\ requested_sounds = <<"break_brown.wav">>
    /\ player.air = 0
    /\ \E p, q \in Points :
          /\ p # q
          /\ cells[p].cell_type = "None" /\ cells[p].color = "Brown"
          /\ cells[p].block_life = 0
          /\ cells[q].cell_type = "None" /\ cells[q].color = "Brown"
          /\ cells[q].leader = cells[p].leader
          /\ cells[q].block_life = BLOCK_LIFE_MAX

\* C8: the air of the player is within [0, AIR_MAX] in every reachable state.
AirWithinBounds == player.air \in 0 .. AIR_MAX

\* C9: once the game is over or cleared, a call of update adds 1 to frame,
\* returns, and changes nothing else.
TerminalUpdateOnlyCountsFrame ==
    [][(pc = "update" /\ (is_over \/ is_clear)) =>
          /\ frame' = frame + 1
          /\ pc' = "play_sounds"
          /\ UNCHANGED <<cells, player, depth, is_over, is_clear,
                         requested_sounds, camera_y>>]_vars

\* C9 witness: update has been called with a command on a game that was
\* already over (the sounds of the tick that ended it were drained before).
TerminalUpdateWitness ==
    /\ pc = "play_sounds"
    /\ is_over
    /\ command # "None"
    /\ requested_sounds = <<>>

\* The grid of the scenario holds its Block at p and nothing at q.
BlockAt(p, q) == IsBlock(cells, p) /\ cells[q].cell_type = "None"

\* C10 as stated: after SHAKE_FRAMES + FALL_FRAMES + 1 passes of the Gravity
\* Engine alone the Block that started at (0, 0) is at (0, 1).
ScenarioAfterShakeFallPlus1 ==
    steps = SHAKE_FRAMES + FALL_FRAMES + 1 => BlockAt(<<0, 1>>, <<0, 0>>)

\* C10 amended: the Block is at (0, 1), and (0, 0) is Empty, after
\* SHAKE_FRAMES + FALL_FRAMES + 5 passes, and it is still at (0, 0) after any
\* smaller number of passes.
ScenarioAfterShakeFallPlus5 ==
    /\ steps = SHAKE_FRAMES + FALL_FRAMES + 5 => BlockAt(<<0, 1>>, <<0, 0>>)
    /\ steps < SHAKE_FRAMES + FALL_FRAMES + 5 => BlockAt(<<0, 0>>, <<0, 1>>)

\* C10 witness: the pass that relocates the Block has run.
ScenarioWitness ==
    /\ steps = SHAKE_FRAMES + FALL_FRAMES + 5
    /\ cells[<<0, 1>>].fell
    /\ IsBlock(cells, <<0, 1>>)

\* C11: at the end of every tick, every Block or Air cell whose grounded flag
\* is set has shaking_frames = -1 and falling_frames = -1.
SupportedCellsHaveNoTimers ==
    pc = "play_sounds" =>
        \A p \in Points :
            (cells[p].grounded /\ cells[p].cell_type \in {"Block", "Air"})
                => /\ cells[p].shaking_frames = -1
                   /\ cells[p].falling_frames = -1

\* C12: a command of one of the four directions that is resolved while the
\* player is Walking or Falling is ignored: it changes no cell, not the air,
\* not is_clear, not the sound queue, and not the player.
CommandIgnoredUnlessStanding ==
    [][(/\ pc = "dig_or_walk"
        /\ command \in Direction
        /\ player.state \in {"Walking", "Falling"}) =>
          /\ cells' = cells
          /\ player' = player
          /\ is_clear' = is_clear
          /\ requested_sounds' = requested_sounds]_vars

\* The cell directly below the player is Empty or Air.
NoFooting ==
    LET down == <<player.p[1], player.p[2] + 1>>
    IN  down \in Points /\ cells[down].cell_type \in {"None", "Air"}

\* A tick of walking: the walk counter goes up by one; at WALK_FRAMES the
\* player is Standing one column further in the recorded direction, on the
\* same row; before that it is still Walking in place.
WalkAdvances ==
    LET wf == player.walking_frames + 1
    IN  /\ player'.walking_frames = wf
        /\ player'.direction = player.direction
        /\ IF wf = WALK_FRAMES
           THEN /\ player'.state = "Standing"
                /\ player'.p = <<player.p[1] + (IF player.direction = "Left"
                                                THEN -1 ELSE 1), player.p[2]>>
           ELSE /\ wf < WALK_FRAMES
                /\ player'.state = "Walking"
                /\ player'.p = player.p

\* The player enters Walking when a command is resolved, with the walk
\* counter at 0 and the direction of the command recorded.
WalkEntered ==
    (player.state # "Walking" /\ player'.state = "Walking") =>
        /\ pc = "dig_or_walk"
        /\ player'.walking_frames = 0
        /\ player'.direction = command

\* Outside player_move nothing moves a Walking player or its walk counter.
WalkUntouched ==
    (player.state = "Walking" /\ pc # "player_move") =>
        /\ player'.state = "Walking"
        /\ player'.walking_frames = player.walking_frames
        /\ player'.direction = player.direction
        /\ player'.p = player.p

\* C13 as stated: once the player is Walking, every tick of a game that has
\* not ended is a tick of walking, so that the player is Standing one column
\* further, on the same row, after exactly WALK_FRAMES further ticks.
WalkTakesWalkFrames ==
    /\ [][WalkEntered]_vars
    /\ [][WalkUntouched]_vars
    /\ [][(pc = "player_move" /\ player.state = "Walking") => WalkAdvances]_vars

\* C13 amended: the same, unless the cell below the player is Empty or Air
\* at the start of one of these ticks: the player is then put into Falling,
\* stays in its column, and the walk is abandoned.
WalkTakesWalkFramesOnFooting ==
    /\ [][WalkEntered]_vars
    /\ [][WalkUntouched]_vars
    /\ [][(pc = "player_move" /\ player.state = "Walking" /\ ~NoFooting)
              => WalkAdvances]_vars
    /\ [][(pc = "player_move" /\ player.state = "Walking" /\ NoFooting) =>
              /\ player'.state = "Falling"
              /\ player'.p = player.p
              /\ player'.walking_frames = player.walking_frames]_vars

\* C13 witness: a walk to the right has just been completed, and a walk to
\* the left has been abandoned for a fall.
WalkCompletedWitness ==
    /\ pc = "fall_ungrounded_blocks"
    /\ player.state = "Standing"
    /\ player.direction = "Right"
    /\ player.walking_frames = WALK_FRAMES
    /\ player.p[1] = CELLS_X_MAX

\* The player enters Falling in player_move only, from a cell with no
\* footing, and that tick is the first tick of the fall.
FallEntered ==
    (player.state # "Falling" /\ player'.state = "Falling") =>
        /\ pc = "player_move"
        /\ NoFooting
        /\ player'.falling_frames = 1
        /\ player'.p = player.p
        /\ depth' = depth

\* A further tick of a fall: the FALL_FRAMES-th tick ends it, Standing one
\* row lower in the same column, with depth one higher; an earlier tick
\* leaves the player Falling in place.
FallAdvances ==
    LET ff == player.falling_frames + 1
    IN  IF ff = FALL_FRAMES
        THEN /\ player'.state = "Standing"
             /\ player'.p = <<player.p[1], player.p[2] + 1>>
             /\ depth' = depth + 1
        ELSE /\ ff < FALL_FRAMES
             /\ player'.state = "Falling"
             /\ player'.falling_frames = ff
             /\ player'.p = player.p
             /\ depth' = depth

\* Outside player_move nothing moves a Falling player or its fall counter.
FallUntouched ==
    (player.state = "Falling" /\ pc # "player_move") =>
        /\ player'.state = "Falling"
        /\ player'.falling_frames = player.falling_frames
        /\ player'.p = player.p

\* depth changes only when a fall is completed.
DepthCountsLandings ==
    depth' # depth =>
        /\ pc = "player_move"
        /\ depth' = depth + 1
        /\ player'.state = "Standing"
        /\ player'.p = <<player.p[1], player.p[2] + 1>>

\* C14: a fall that began in some tick (its first tick) ends on its
\* FALL_FRAMES-th tick, unless the game ends first: the player is Standing
\* one row lower, in the same column, and depth is one higher; depth changes
\* at no other time.
FallTakesFallFrames ==
    /\ [][FallEntered]_vars
    /\ [][FallUntouched]_vars
    /\ [][(pc = "player_move" /\ player.state = "Falling") => FallAdvances]_vars
    /\ [][DepthCountsLandings]_vars

\* C14 witness: the player has completed two falls in a row and stands two
\* rows below its first row.
FallCompletedWitness ==
    /\ pc = "fall_ungrounded_blocks"
    /\ player.state = "Standing"
    /\ player.falling_frames = 0
    /\ depth = 2
    /\ player.p[2] = UP_SPACE_HEIGHT - 1 + depth

\* C15: after every pass of update_grounded, every cell of the floor row
\* (the row of the largest index) is grounded.
FloorRowSupported ==
    pc = "air" =>
        \A x \in CELLS_X_MIN .. CELLS_X_MAX : cells[<<x, CELLS_Y_MAX>>].grounded

\* C15 witness: the support pass has run in a game in which the player has
\* dug its way down to the floor row and stands on it.
FloorRowWitness ==
    /\ pc = "air"
    /\ player.p[2] = CELLS_Y_MAX - 1
    /\ player.state = "Standing"
    /\ \E p \in Points : cells[p].cell_type = "Block" /\ ~cells[p].grounded

\* The member of the set S of points that the row-major scan visits first:
\* smallest row, then smallest column.
FirstInScan(S) ==
    CHOOSE p \in S :
        \A q \in S : p[2] < q[2] \/ (p[2] = q[2] /\ p[1] <= q[1])

\* C16: after set_leaders, the label of every Block is the position of the
\* member of its component that the row-major scan visits first, and the
\* cell at that position is a Block of that component with the same label.
LeaderIsFirstInScan ==
    pc = "erase_connected_blocks" =>
        \A p \in Points :
            IsBlock(cells, p) =>
                LET first == FirstInScan(Component(cells, p))
                IN  /\ cells[p].leader = <<first>>
                    /\ IsBlock(cells, first)
                    /\ cells[first].color = cells[p].color
                    /\ cells[first].leader = <<first>>

\* C16 witness: the labeler has run on a grid with a component of three
\* cells or more whose leader is not its leftmost cell: a member lies in a
\* column to the left of the leader, on a lower row.
LeaderWitness ==
    /\ pc = "erase_connected_blocks"
    /\ \E p, q \in Points :
          /\ IsBlock(cells, p) /\ IsBlock(cells, q)
          /\ cells[q].leader = <<p>>
          /\ q[1] < p[1]
          /\ q[2] > p[2]
          /\ Cardinality(Component(cells, p)) >= 3

\* The step of one cell in a direction, as a pair of offsets.
Offset(direction) ==
    CASE direction = "Left" -> <<-1, 0>>
      [] direction = "Right" -> <<1, 0>>
      [] direction = "Up" -> <<0, -1>>
      [] direction = "Down" -> <<0, 1>>

\* p lies on the edge of the grid in the direction.
OnEdge(p, direction) ==
    CASE direction = "Left" -> p[1] = CELLS_X_MIN
      [] direction = "Right" -> p[1] = CELLS_X_MAX
      [] direction = "Up" -> p[2] = CELLS_Y_MIN
      [] direction = "Down" -> p[2] = CELLS_Y_MAX

\* C18: for every point p of the grid and every direction d, neighbor(p, d)
\* is None exactly when p lies on the edge of the grid in direction d, and
\* is otherwise the point one step from p in direction d, which is a point
\* of the grid: the other coordinate is unchanged and nothing wraps around.
NeighborBounded ==
    \A p \in Points : \A d \in Direction :
        /\ neighbor(p, d) = <<>> <=> OnEdge(p, d)
        /\ ~OnEdge(p, d) =>
              /\ neighbor(p, d) = << <<p[1] + Offset(d)[1], p[2] + Offset(d)[2]>> >>
              /\ neighbor(p, d)[1] \in Points

\* C18 witness: the gravity pass has moved the Block of the 9-column grid
\* from (0, 0) to the cell neighbor gave it, (0, 1); that cell has no
\* neighbour below, and (0, 0) has none to the left and none above.
NeighborWitness ==
    /\ pc = "fall_ungrounded_blocks"
    /\ x_len = CELLS_X_LEN
    /\ IsBlock(cells, <<0, 1>>) /\ cells[<<0, 1>>].fell
    /\ neighbor(<<0, 0>>, "Down") = << <<0, 1>> >>
    /\ neighbor(<<0, 1>>, "Down") = <<>>
    /\ neighbor(<<0, 0>>, "Left") = <<>>
    /\ neighbor(<<0, 0>>, "Up") = <<>>
    /\ neighbor(<<CELLS_X_MAX, 0>>, "Right") = <<>>

\* The cell a Left or Right command points at, whether or not it is a point
\* of the grid.
Sideways ==
    <<player.p[1] + (IF command = "Left" THEN -1 ELSE 1), player.p[2]>>

\* C19: when a Left or Right command is resolved with the player Standing:
\* at the edge of the grid nothing changes; towards an Empty or Air cell the
\* player becomes Walking with the direction recorded and walking_frames = 0
\* and no cell changes; towards a Block the dig is applied to that Block (its
\* durability goes down) and the player's state, position and direction are
\* unchanged.
SidewaysCommandWalksOrDigs ==
    [][(/\ pc = "dig_or_walk"
        /\ command \in {"Left", "Right"}
        /\ player.state = "Standing") =>
          IF Sideways \notin Points
          THEN UNCHANGED <<cells, player, is_clear, requested_sounds>>
          ELSE IF cells[Sideways].cell_type \in {"None", "Air"}
               THEN /\ player' = [player EXCEPT !.state = "Walking",
                                                !.direction = command,
                                                !.walking_frames = 0]
                    /\ UNCHANGED <<cells, is_clear, requested_sounds>>
               ELSE /\ player'.state = "Standing"
                    /\ player'.p = player.p
                    /\ player'.direction = player.direction
                    /\ cells'[Sideways].block_life < cells[Sideways].block_life
                    /\ LET g == dig([cells |-> cells, air |-> player.air,
                                     is_clear |-> is_clear,
                                     requested_sounds |-> requested_sounds],
                                    Sideways)
                       IN  /\ cells' = g.cells
                           /\ player'.air = g.air
                           /\ is_clear' = g.is_clear
                           /\ requested_sounds' = g.requested_sounds]_vars

\* C19 witness: a Right command has just put the player, who had dug its
\* way below the first row, into Walking.
SidewaysWitness ==
    /\ pc = "update_grounded"
    /\ command = "Right"
    /\ player.state = "Walking"
    /\ player.direction = "Right"
    /\ player.walking_frames = 0
    /\ depth > 0

\* C20: in player_move, which runs before the command of the tick is
\* resolved, a player that is not Falling and has an Empty or Air cell
\* directly below is put into Falling with its fall counter restarted (it
\* counts this tick: 1); a player that is not Falling and has a Block below,
\* or stands on the last row, is not put into Falling, and no other step
\* puts a player into Falling.
NoFootingStartsFall ==
    /\ [][(pc = "player_move" /\ player.state # "Falling" /\ NoFooting) =>
              /\ player'.state = "Falling"
              /\ player'.falling_frames = 1
              /\ player'.p = player.p
              /\ pc' = "fall_ungrounded_blocks"]_vars
    /\ [][(player.state # "Falling" /\ ~NoFooting) =>
              player'.state # "Falling"]_vars
    /\ [][(player.state # "Falling" /\ pc # "player_move") =>
              player'.state # "Falling"]_vars

\* C20 witness: a player that was Walking has been put into Falling (its
\* walk counter stopped short of WALK_FRAMES).
NoFootingWitness ==
    /\ pc = "fall_ungrounded_blocks"
    /\ player.state = "Falling"
    /\ player.falling_frames = 1
    /\ player.walking_frames \in 1 .. WALK_FRAMES - 1

\* The number of Air cells of the grid.
AirCells(c) == Cardinality({p \in DOMAIN c : c[p].cell_type = "Air"})

\* The air the player has plus the air the grid still holds.
AirLeft == player.air + AirPickup * AirCells(cells)

\* C17: every game reaches a terminal state (is_over or is_clear) after
\* finitely many ticks.  The number of Air cells never increases; the air
\* rises only in the air step of a tick, only when the player's cell is an
\* Air cell, which is consumed; every completed tick takes 1 from the air,
\* so that the air left to the player and in the grid goes down with every
\* tick; and a tick that leaves the air at 0 or less ends the game.
GameTerminates ==
    /\ <>(is_over \/ is_clear)
    /\ [][AirCells(cells') <= AirCells(cells)]_vars
    /\ [][player'.air > player.air =>
              /\ pc = "air"
              /\ cells[player.p].cell_type = "Air"
              /\ cells'[player.p].cell_type = "None"]_vars
    /\ [][pc = "air" =>
              /\ player'.air =
                    (IF cells[player.p].cell_type = "Air"
                     THEN clamp(0, player.air + AirPickup, AIR_MAX)
                     ELSE player.air) - 1
              /\ AirLeft' < AirLeft
              /\ (player'.air <= 0 => is_over')]_vars
    /\ [][AirLeft' <= AirLeft]_vars

\* C17 witness: a game has ended for want of air after more than AIR_MAX
\* ticks: the player picked up the Air cell of the grid on the way.
GameTerminatesWitness ==
    /\ is_over
    /\ player.air = 0
    /\ AirCells(cells) = 0
    /\ frame >= AIR_MAX

\* The sound was requested by the update call in progress.
Requested(sound) ==
    \E i \in DOMAIN requested_sounds : requested_sounds[i] = sound

\* The air after the pickup of the resource step: 20% of AIR_MAX more when
\* the player's cell is Air, capped at AIR_MAX.
AirAfterPickup ==
    IF cells[player.p].cell_type = "Air"
    THEN IF player.air + AIR_MAX \div 5 > AIR_MAX THEN AIR_MAX
         ELSE player.air + AIR_MAX \div 5
    ELSE player.air

\* C21: in every tick that runs to completion, an Air cell at the player's
\* position becomes Empty and air rises by 20% of AIR_MAX, capped at AIR_MAX;
\* then air falls by exactly 1, pickup or not; is_over is set in that tick
\* exactly when the resulting air is <= 0 or the player's cell is a Block.
ResourceStep ==
    [][pc = "air" =>
          /\ cells' = IF cells[player.p].cell_type = "Air"
                      THEN [cells EXCEPT ![player.p].cell_type = "None"]
                      ELSE cells
          /\ player' = [player EXCEPT !.air = AirAfterPickup - 1]
          /\ ~is_over
          /\ is_over' <=> (AirAfterPickup - 1 <= 0
                              \/ cells[player.p].cell_type = "Block")]_vars

\* C21 witness: a tick has picked an Air cell up with the cap in force (air
\* is AIR_MAX - 1 after the decrement) and the cell is Empty.
ResourceStepWitness ==
    /\ pc = "play_sounds"
    /\ Requested("shrink.wav")
    /\ cells[player.p].cell_type = "None"
    /\ player.air = AIR_MAX - 1
    /\ ~is_over

\* C22: at the end of every update call after which the game is neither
\* over nor cleared, the cell at the player's position is Empty and the
\* player's air is greater than 0.
PlayerCellEmptyWhileRunning ==
    (pc \in {"play_sounds", "update"} /\ ~is_over /\ ~is_clear) =>
        /\ cells[player.p].cell_type = "None"
        /\ player.air > 0

\* C22 witness: an update call has ended with the game still running, after
\* the player fell into an Air cell and consumed it.
PlayerCellEmptyWitness ==
    /\ pc = "play_sounds"
    /\ ~is_over /\ ~is_clear
    /\ depth > 0
    /\ Requested("shrink.wav")
    /\ player.state = "Standing"

\* The support pass has just run: in update the resource step follows it, in
\* the passes over the grid alone (no frame counted) the gravity pass does.
SupportPassDone ==
    \/ pc = "air"
    \/ pc = "fall_ungrounded_blocks" /\ frame < 0

\* C23: after every pass of update_grounded, all Block cells that share a
\* label have the same supported flag.
ComponentSupportedAsWhole ==
    SupportPassDone =>
        \A p, q \in Points :
            (/\ IsBlock(cells, p) /\ IsBlock(cells, q)
             /\ cells[p].leader = cells[q].leader)
                => cells[p].grounded = cells[q].grounded

\* C23 witness: after a support pass, one component of two or more Blocks is
\* unsupported as a whole, and a Block with an Empty cell directly below it
\* is supported through another member of its component.
ComponentSupportedWitness ==
    /\ SupportPassDone
    /\ \E p, q \in Points :
          /\ p # q /\ IsBlock(cells, p) /\ IsBlock(cells, q)
          /\ cells[p].leader = cells[q].leader
          /\ ~cells[p].grounded /\ ~cells[q].grounded
    /\ \E p, q \in Points :
          /\ p # q /\ IsBlock(cells, p) /\ IsBlock(cells, q)
          /\ cells[p].leader = cells[q].leader
          /\ cells[p].grounded /\ cells[q].grounded
          /\ p[2] < CELLS_Y_MAX
          /\ cells[<<p[1], p[2] + 1>>].cell_type = "None"

\* The support pass in progress takes the support of the cell at p away: the
\* cell was not Empty and supported at the end of the tick before, and is
\* not Empty and unsupported at the end of this one (an Air cell at the
\* player's position is consumed before the tick ends).
LosesSupport(p) ==
    /\ pc = "update_grounded"
    /\ cells[p].cell_type # "None" /\ cells[p].grounded
    /\ cells'[p].cell_type # "None" /\ ~cells'[p].grounded
    /\ ~(cells'[p].cell_type = "Air" /\ p = player.p)

\* The cell at p as the gravity pass of the next tick leaves it when it
\* visits p (no step in between changes the timers of a cell).
AfterNextGravity(p) == fall_cell(cells', p).cells[p]

\* C24: when a cell that is not Empty was supported at the end of one tick
\* and is unsupported at the end of the next, the gravity pass of the
\* following tick does not relocate it: it starts the shake phase from 0,
\* with the fall phase not begun.
ShakeStartsAtSupportLoss ==
    [][\A p \in Points :
          LosesSupport(p) =>
              /\ AfterNextGravity(p).cell_type = cells'[p].cell_type
              /\ AfterNextGravity(p).shaking_frames = 0
              /\ AfterNextGravity(p).falling_frames < 0]_vars

\* C25: whenever the gravity pass relocates a cell, the cell directly below
\* it is Empty immediately before the relocation.
RelocationIntoEmpty ==
    [][pc = "fall_ungrounded_blocks" =>
          \A i \in 1 .. ScanLen :
              LET g == FallBefore(cells, i)
                  p == ScanUp(i)
              IN  (~g.panicked /\ Relocates(g.cells, p) /\ p[2] < CELLS_Y_MAX)
                      => g.cells[<<p[1], p[2] + 1>>].cell_type = "None"]_vars

\* C26: is_over and is_clear are never both true; the tick in which a dig
\* sets is_clear stops there (update returns before the air and crush
\* checks), and once the game is over or cleared no step changes the grid,
\* the player, the depth or the two flags.
NeverOverAndClear ==
    /\ [](~(is_over /\ is_clear))
    /\ [][(is_clear' /\ ~is_clear) =>
              pc = "dig_or_walk" /\ pc' = "play_sounds"]_vars
    /\ [][(is_over \/ is_clear) =>
              UNCHANGED <<cells, player, depth, is_over, is_clear>>]_vars

\* C26 witness: a dig has cleared the game, and the tick ended without the
\* air consumption: every tick before it took 1 of air, this one did not.
NeverOverAndClearWitness ==
    /\ is_clear /\ ~is_over
    /\ pc = "play_sounds"
    /\ Requested("clear.wav")
    /\ frame > 0
    /\ player.air = AIR_MAX - frame

\* C27: the player's position is inside the grid in every reachable state.
PlayerInsideGrid ==
    /\ player.p[1] \in CELLS_X_MIN .. CELLS_X_MAX
    /\ player.p[2] \in CELLS_Y_MIN .. CELLS_Y_MAX

\* C27 witness: the player has walked to the left edge of the grid, a further
\* Left command was given there, and the player has stayed in place.
PlayerInsideGridWitness ==
    /\ pc = "play_sounds"
    /\ command = "Left"
    /\ player.p[1] = CELLS_X_MIN
    /\ player.state = "Standing"
    /\ player.walking_frames = WALK_FRAMES

\* C28: in every state a game reaches, the gravity pass does not come to the
\* relocation step for a cell of the bottom row, and the lookup of the
\* downward neighbour does not fail: the process never aborts.
NoRelocationFromBottomRow ==
    /\ [](~panicked /\ pc # "panic")
    /\ [][pc = "fall_ungrounded_blocks" =>
              \A i \in 1 .. ScanLen :
                  ScanUp(i)[2] = CELLS_Y_MAX =>
                      ~Relocates(FallBefore(cells, i).cells, ScanUp(i))]_vars

\* C28 witness: a gravity pass has relocated a cell into the row directly
\* above the bottom row, and the game goes on.
NoRelocationFromBottomRowWitness ==
    /\ pc = "set_leaders"
    /\ ~panicked
    /\ \E p \in Points :
          /\ p[2] = CELLS_Y_MAX - 1
          /\ cells[p].cell_type # "None"
          /\ cells[p].fell

\* The command of the tick takes effect in the step: a walk is started or a
\* block is dug (a dig changes the grid: the life of a Brown block or the
\* kind of the cells of a component).
CommandTakesEffect ==
    /\ pc = "dig_or_walk"
    /\ \/ cells' # cells
       \/ player.state # "Walking" /\ player'.state = "Walking"

\* The player is on the bottom row or the cell directly below is a Block.
HasFooting ==
    \/ player.p[2] = CELLS_Y_MAX
    \/ cells[<<player.p[1], player.p[2] + 1>>].cell_type = "Block"

\* C29: whenever a command takes effect in a tick, the player has footing at
\* that moment.
CommandNeedsFooting == [][CommandTakesEffect => HasFooting]_vars

====
